---- MODULE Spec2Model ----
(***************************************************************************)
(* A model of the Postmark MCP server (src/index.js): process start-up,    *)
(* the four registered tools, signal-triggered shutdown, the attachment   *)
(* resolver and the delivery-statistics rate computation.                  *)
(*                                                                         *)
(* Conventions.  An optional JavaScript value is a sequence: <<>> is      *)
(* undefined, <<v>> is the value v.  A string whose characters the code   *)
(* inspects (a file path, a file name) is a tuple of one-character        *)
(* strings; every other string is a TLA+ string.  An async function is    *)
(* split at its awaits: each action is one synchronous run of the event   *)
(* loop.                                                                  *)
(***************************************************************************)
EXTENDS Integers, Sequences, FiniteSets, TLC

VARIABLES
  serverToken,           \* process.env.POSTMARK_SERVER_TOKEN  (index.js:18)
  defaultSender,         \* process.env.DEFAULT_SENDER_EMAIL   (index.js:19)
  defaultMessageStream,  \* process.env.DEFAULT_MESSAGE_STREAM (index.js:20)
  mainPc,                \* position of main(): start, awaitGetServer, awaitConnect, running
  exitCode,              \* <<>> while the process lives, <<c>> after process.exit(c)
  exitCause,             \* what called process.exit: "", config, init, connect, shutdown, unhandled
  registeredTools,       \* names passed to server.tool
  transportBound,        \* server.connect(transport) has succeeded
  signalHandlers,        \* SIGTERM/SIGINT handlers are installed
  liveness,              \* the client.getServer() promise: none, pending, ok, failed
  signalsDelivered,      \* number of SIGTERM/SIGINT delivered to the handlers
  closeCalls,            \* number of server.close() calls
  closePending,          \* the server.close() calls whose promise has not settled
  inv                    \* the tool invocations, one record per slot

vars == << serverToken, defaultSender, defaultMessageStream, mainPc, exitCode,
           exitCause, registeredTools, transportBound, signalHandlers,
           liveness, signalsDelivered, closeCalls, closePending, inv >>

envVars == << serverToken, defaultSender, defaultMessageStream >>

lifeVars == << mainPc, exitCode, exitCause, registeredTools, transportBound,
               signalHandlers, liveness >>

shutVars == << signalsDelivered, closeCalls, closePending >>

----------------------------------------------------------------------------
(* Bounds of the model *)

MaxInv == 2
MaxAtt == 2
MaxSignals == 2
MaxCount == 99

Slots == 1..MaxInv

----------------------------------------------------------------------------
(* JavaScript truthiness of optional values *)

Undefined == <<>>

\* !x for an optional string: undefined and "" are falsy
TruthyStr(o) == o # Undefined /\ o[1] # ""

\* !x for an optional number: undefined and 0 are falsy
TruthyNum(o) == o # Undefined /\ o[1] # 0

\* !x for an optional character tuple: undefined and the empty string are falsy
TruthyChars(o) == o # Undefined /\ o[1] # <<>>

EnvValues == { Undefined, <<"">> }

TokenValue == "server-token"
SenderValue == "sender@example.com"
StreamValue == "outbound"

----------------------------------------------------------------------------
(* node:path (POSIX) and String.prototype.toLowerCase on character tuples *)

UpperChars == << "A","B","C","D","E","F","G","H","I","J","K","L","M",
                 "N","O","P","Q","R","S","T","U","V","W","X","Y","Z" >>
LowerChars == << "a","b","c","d","e","f","g","h","i","j","k","l","m",
                 "n","o","p","q","r","s","t","u","v","w","x","y","z" >>

LowerChar(c) ==
  IF \E k \in 1..Len(UpperChars) : UpperChars[k] = c
    THEN LowerChars[CHOOSE k \in 1..Len(UpperChars) : UpperChars[k] = c]
    ELSE c

toLowerCase(s) == [ k \in 1..Len(s) |-> LowerChar(s[k]) ]

\* s.slice(from, to) with JavaScript's 0-based, end-exclusive indices
Slice(s, from, to) == IF to <= from THEN <<>> ELSE SubSeq(s, from + 1, to)

\* The scanning loop of path.basename: i runs from the last index down to 0.
\* st = [start, end, matchedSlash, stop]
RECURSIVE BasenameScan(_, _, _)
BasenameScan(p, i, st) ==
  IF i < 0 \/ st.stop THEN st
  ELSE IF p[i + 1] = "/"
    THEN IF ~st.matchedSlash
           THEN [ st EXCEPT !.start = i + 1, !.stop = TRUE ]
           ELSE BasenameScan(p, i - 1, st)
    ELSE IF st.end = -1
      THEN BasenameScan(p, i - 1, [ st EXCEPT !.matchedSlash = FALSE, !.end = i + 1 ])
      ELSE BasenameScan(p, i - 1, st)

basename(p) ==
  LET st == BasenameScan(p, Len(p) - 1,
                         [ start |-> 0, end |-> -1, matchedSlash |-> TRUE, stop |-> FALSE ])
  IN  IF st.end = -1 THEN <<>> ELSE Slice(p, st.start, st.end)

\* The scanning loop of path.extname.
\* st = [startDot, startPart, end, matchedSlash, preDotState, stop]
RECURSIVE ExtnameScan(_, _, _)
ExtnameScan(p, i, st) ==
  IF i < 0 \/ st.stop THEN st
  ELSE IF p[i + 1] = "/"
    THEN IF ~st.matchedSlash
           THEN [ st EXCEPT !.startPart = i + 1, !.stop = TRUE ]
           ELSE ExtnameScan(p, i - 1, st)
    ELSE LET s1 == IF st.end = -1
                     THEN [ st EXCEPT !.matchedSlash = FALSE, !.end = i + 1 ]
                     ELSE st
             s2 == IF p[i + 1] = "."
                     THEN IF s1.startDot = -1
                            THEN [ s1 EXCEPT !.startDot = i ]
                            ELSE IF s1.preDotState # 1
                                   THEN [ s1 EXCEPT !.preDotState = 1 ]
                                   ELSE s1
                     ELSE IF s1.startDot # -1
                            THEN [ s1 EXCEPT !.preDotState = -1 ]
                            ELSE s1
         IN  ExtnameScan(p, i - 1, s2)

extname(p) ==
  LET st == ExtnameScan(p, Len(p) - 1,
                        [ startDot |-> -1, startPart |-> 0, end |-> -1,
                          matchedSlash |-> TRUE, preDotState |-> 0, stop |-> FALSE ])
  IN  IF \/ st.startDot = -1
         \/ st.end = -1
         \/ st.preDotState = 0
         \/ /\ st.preDotState = 1
            /\ st.startDot = st.end - 1
            /\ st.startDot = st.startPart + 1
        THEN <<>>
        ELSE Slice(p, st.startDot, st.end)

----------------------------------------------------------------------------
(* The attachment resolver of the sendEmail handler *)

\* index.js:143-156, keyed by the extension with its dot
MIME_TYPES ==
  { << << ".", "c", "s", "v" >>,      "text/csv" >>,
    << << ".", "t", "x", "t" >>,      "text/plain" >>,
    << << ".", "j", "s", "o", "n" >>, "application/json" >>,
    << << ".", "p", "d", "f" >>,      "application/pdf" >>,
    << << ".", "p", "n", "g" >>,      "image/png" >>,
    << << ".", "j", "p", "g" >>,      "image/jpeg" >>,
    << << ".", "j", "p", "e", "g" >>, "image/jpeg" >>,
    << << ".", "g", "i", "f" >>,      "image/gif" >>,
    << << ".", "h", "t", "m", "l" >>, "text/html" >>,
    << << ".", "x", "m", "l" >>,      "application/xml" >>,
    << << ".", "z", "i", "p" >>,      "application/zip" >>,
    << << ".", "m", "d" >>,           "text/markdown" >> }

\* MIME_TYPES[ext]: <<>> when the object has no such key
MimeLookup(ext) ==
  IF \E e \in MIME_TYPES : e[1] = ext
    THEN << (CHOOSE e \in MIME_TYPES : e[1] = ext)[2] >>
    ELSE Undefined

\* A variant of ContentTypeOf that looks the extension up as written
ContentTypeCaseSensitive(filePath) ==
  LET hit == MimeLookup(extname(filePath))
  IN  IF TruthyStr(hit) THEN hit[1] ELSE "application/octet-stream"

\* index.js:160,162
ContentTypeOf(filePath) ==
  LET ext == toLowerCase(extname(filePath))
      hit == MimeLookup(ext)
  IN  IF TruthyStr(hit) THEN hit[1] ELSE "application/octet-stream"

\* A variant of AttachmentName that ignores the fileName override
AttachmentNameFromPath(att) == basename(att.filePath)

\* index.js:161: att.fileName || path.basename(att.filePath)
AttachmentName(att) ==
  IF TruthyChars(att.fileName) THEN att.fileName[1] ELSE basename(att.filePath)

----------------------------------------------------------------------------
(* JavaScript numbers: IEEE-754 binary64 arithmetic on non-negative values. *)
(* A double is [sig, exp]: sig is its 53-bit significand as five limbs of  *)
(* 13 bits, most significant first (the first limb is 1), and its value is *)
(* sig * 2^exp; zero has no limbs.  The quotients and products below stay  *)
(* within 31 bits for counts below 2^17.                                   *)

LimbBits == 13
LimbBase == 8192
SigLimbs == 5

DoubleZero == [ sig |-> <<>>, exp |-> 0 ]

RECURSIVE Pow2(_)
Pow2(k) == IF k = 0 THEN 1 ELSE 2 * Pow2(k - 1)

\* floor(log2(n)) for n >= 1
RECURSIVE Log2(_)
Log2(n) == IF n < 2 THEN 0 ELSE 1 + Log2(n \div 2)

RECURSIVE LimbsToInt(_)
LimbsToInt(l) ==
  IF l = <<>> THEN 0
  ELSE LimbBase * LimbsToInt(SubSeq(l, 1, Len(l) - 1)) + l[Len(l)]

\* l + 1; the first limb absorbs the last carry
RECURSIVE IncLimbs(_)
IncLimbs(l) ==
  IF Len(l) = 1 THEN << l[1] + 1 >>
  ELSE IF l[Len(l)] + 1 < LimbBase
    THEN SubSeq(l, 1, Len(l) - 1) \o << l[Len(l)] + 1 >>
    ELSE IncLimbs(SubSeq(l, 1, Len(l) - 1)) \o << 0 >>

\* l * c for a small integer c; the first limb absorbs the last carry
RECURSIVE MulLimbs(_, _, _)
MulLimbs(l, c, carry) ==
  IF Len(l) = 1 THEN << l[1] * c + carry >>
  ELSE LET t == l[Len(l)] * c + carry
       IN  MulLimbs(SubSeq(l, 1, Len(l) - 1), c, t \div LimbBase) \o << t % LimbBase >>

\* floor(l / 2^k) for 0 <= k < 13, limb by limb
ShiftRight(l, k) ==
  [ j \in 1..Len(l) |->
      (IF j = 1 THEN 0 ELSE (l[j - 1] % Pow2(k)) * Pow2(LimbBits - k)) + l[j] \div Pow2(k) ]

\* A significand whose first limb has grown to 2 or more, rounded back to
\* 53 bits: to nearest, ties to even
RoundToDouble(l, exp) ==
  LET k       == Log2(l[1])
      dropped == l[Len(l)] % Pow2(k)
      kept    == ShiftRight(l, k)
      half    == IF k = 0 THEN 1 ELSE Pow2(k - 1)
      up      == /\ k > 0
                 /\ \/ dropped > half
                    \/ dropped = half /\ kept[Len(l)] % 2 = 1
      r       == IF up THEN IncLimbs(kept) ELSE kept
  IN  IF r[1] > 1
        THEN [ sig |-> ShiftRight(r, 1), exp |-> exp + k + 1 ]
        ELSE [ sig |-> r, exp |-> exp + k ]

\* n * 2^k >= d, smallest such scaling of n (k <= 0 counts the doublings)
RECURSIVE ScaleNum(_, _, _)
ScaleNum(n, d, s) == IF n >= d THEN << n, s >> ELSE ScaleNum(2 * n, d, s - 1)

RECURSIVE ScaleDen(_, _, _)
ScaleDen(n, d, s) == IF n < 2 * d THEN << d, s >> ELSE ScaleDen(n, 2 * d, s + 1)

\* k further quotient limbs of r / d by long division: << limbs, remainder >>
RECURSIVE QuotLimbs(_, _, _)
QuotLimbs(r, d, k) ==
  IF k = 0 THEN << <<>>, r >>
  ELSE LET t    == r * LimbBase
           rest == QuotLimbs(t % d, d, k - 1)
       IN  << << t \div d >> \o rest[1], rest[2] >>

\* The double n / d for integers n >= 0, d > 0
DivDouble(n, d) ==
  IF n = 0 THEN DoubleZero
  ELSE LET sn == ScaleNum(n, d, 0)
           sd == ScaleDen(sn[1], d, sn[2])
           n1 == sn[1]
           d1 == sd[1]
           s  == sd[2]
           q  == QuotLimbs(n1 - d1, d1, SigLimbs - 1)
           Q  == << 1 >> \o q[1]
           r  == q[2]
           up == 2 * r > d1 \/ (2 * r = d1 /\ Q[SigLimbs] % 2 = 1)
           R  == IF up THEN IncLimbs(Q) ELSE Q
           e  == s - LimbBits * (SigLimbs - 1)
       IN  IF R[1] > 1
             THEN [ sig |-> ShiftRight(R, 1), exp |-> e + 1 ]
             ELSE [ sig |-> R, exp |-> e ]

\* The double x * c for an integer 1 <= c < 4096
MulDouble(x, c) ==
  IF x.sig = <<>> THEN DoubleZero ELSE RoundToDouble(MulLimbs(x.sig, c, 0), x.exp)

\* Number.prototype.toFixed(1), in tenths: the integer n for which n / 10 - x is
\* closest to zero, the larger n on a tie.  For x < 2^14.
ToFixedTenths(x) ==
  IF x.sig = <<>> THEN 0
  ELSE LET P == MulLimbs(x.sig, 10, 0)
           f == 0 - x.exp
           w == f \div LimbBits
           b == f % LimbBits
       IN  IF w >= SigLimbs THEN 0
           ELSE LET V     == LimbsToInt(SubSeq(P, 1, SigLimbs - w))
                    whole == V \div Pow2(b)
                    half  == IF b > 0 THEN (V \div Pow2(b - 1)) % 2
                             ELSE IF w > 0 THEN P[SigLimbs - w + 1] \div Pow2(LimbBits - 1)
                             ELSE 0
                IN  whole + half

TenthsToString(n) == ToString(n \div 10) \o "." \o ToString(n % 10)

toFixed1(x) == TenthsToString(ToFixedTenths(x))

\* A variant of RateOf without the guard on the denominator: 0 / 0 is NaN and
\* n / 0 is Infinity
RateOfUnguarded(n, d) ==
  IF d > 0 THEN toFixed1(MulDouble(DivDouble(n, d), 100))
  ELSE IF n = 0 THEN "NaN" ELSE "Infinity"

\* index.js:295-296: d > 0 ? ((n / d) * 100).toFixed(1) : '0.0'
RateOf(n, d) == IF d > 0 THEN toFixed1(MulDouble(DivDouble(n, d), 100)) ELSE "0.0"

----------------------------------------------------------------------------
(* The file system the server reads attachments from, and sample paths *)

TmpDir == << "/", "t", "m", "p", "/" >>

ReportCsv == TmpDir \o << "r", ".", "c", "s", "v" >>
ChartPng  == TmpDir \o << "c", ".", "p", "n", "g" >>
GonePdf   == TmpDir \o << "g", "o", "n", "e", ".", "p", "d", "f" >>

\* One file per key of MIME_TYPES: /tmp/f.csv, /tmp/f.txt, ...
TablePaths == { TmpDir \o << "f" >> \o e[1] : e \in MIME_TYPES }

\* Paths whose extension differs from the table's keys in letter case only
CasePaths ==
  { TmpDir \o << "R", ".", "C", "S", "V" >>,
    TmpDir \o << "a", ".", "P", "d", "f" >>,
    TmpDir \o << "p", ".", "J", "P", "E", "G" >>,
    TmpDir \o << "n", ".", "M", "D" >> }

\* Paths with an unlisted extension, or with none
OtherPaths ==
  { TmpDir \o << "s", ".", "e", "x", "e" >>,
    TmpDir \o << "n", "o", "e", "x", "t" >>,
    TmpDir \o << ".", "c", "s", "v" >>,
    TmpDir \o << "d", "o", "t", "." >>,
    TmpDir \o << "a", ".", "t", "a", "r", ".", "g", "z" >>,
    TmpDir \o << "c", "s", "v" >>,
    << "/", "v", ".", "p", "d", "f", "/", "x" >> }

SamplePaths == { ReportCsv, ChartPng } \cup TablePaths \cup CasePaths \cup OtherPaths

\* The files that exist and can be read
ExistingFiles == SamplePaths

\* fs.readFileSync(path): <<content>>, or <<>> when the call throws
readFileSync(path) ==
  IF path \in ExistingFiles THEN << [ file |-> path ] >> ELSE Undefined

\* Buffer.prototype.toString('base64'), kept symbolic
Base64(content) == [ base64 |-> content.file ]

\* index.js:158-168: the callback of attachments.map
EncodeAttachment(att, content) ==
  [ Name        |-> AttachmentName(att),
    Content     |-> Base64(content),
    ContentType |-> ContentTypeOf(att.filePath) ]

\* A variant of AttachmentsMap that skips a file it cannot read
RECURSIVE AttachmentsMapSkip(_, _, _)
AttachmentsMapSkip(atts, k, acc) ==
  IF k > Len(atts)
    THEN [ threw |-> FALSE, value |-> acc, reads |-> Len(atts) ]
    ELSE LET content == readFileSync(atts[k].filePath)
         IN  IF content = Undefined
               THEN AttachmentsMapSkip(atts, k + 1, acc)
               ELSE AttachmentsMapSkip(atts, k + 1,
                                       Append(acc, EncodeAttachment(atts[k], content[1])))

\* index.js:158: attachments.map(...), element by element from index k; the
\* first readFileSync that throws ends the map.
\* [threw, value, reads]: reads counts the readFileSync calls made.
RECURSIVE AttachmentsMap(_, _, _)
AttachmentsMap(atts, k, acc) ==
  IF k > Len(atts)
    THEN [ threw |-> FALSE, value |-> acc, reads |-> Len(atts) ]
    ELSE LET content == readFileSync(atts[k].filePath)
         IN  IF content = Undefined
               THEN [ threw |-> TRUE, value |-> <<>>, reads |-> k ]
               ELSE AttachmentsMap(atts, k + 1,
                                   Append(acc, EncodeAttachment(atts[k], content[1])))

\* Array.prototype.join(', ') on character tuples
RECURSIVE Join(_)
Join(names) ==
  IF names = <<>> THEN <<>>
  ELSE IF Len(names) = 1 THEN names[1]
  ELSE names[1] \o << ",", " " >> \o Join(Tail(names))

----------------------------------------------------------------------------
(* Tool inputs *)

\* All sequences over S of length at most n
RECURSIVE SeqsUpTo(_, _)
SeqsUpTo(S, n) ==
  IF n = 0 THEN { <<>> }
  ELSE LET shorter == SeqsUpTo(S, n - 1)
       IN  shorter \cup { Append(q, x) : q \in shorter, x \in S }

ValidEmails == { "a@example.com", "c@example.com" }
ValidDates == { "2025-05-01", "2025-05-15" }

\* z.string().email()
IsEmail(v) == v \in ValidEmails

\* z.string().regex(/^\d{4}-\d{2}-\d{2}$/)
IsDate(v) == v \in ValidDates

Att(filePath, fileName) == [ filePath |-> filePath, fileName |-> fileName ]

SendEmailArgs(to, from, htmlBody, tag, attachments) ==
  [ to |-> to, subject |-> "Hi", textBody |-> "Hello", htmlBody |-> htmlBody,
    from |-> from, tag |-> tag, attachments |-> attachments ]

TemplateArgs(templateId, templateAlias, from, tag) ==
  [ to |-> "a@example.com", templateId |-> templateId, templateAlias |-> templateAlias,
    templateModel |-> [ name |-> "John Doe" ], from |-> from, tag |-> tag ]

StatsArgs(tag, fromDate, toDate) == [ tag |-> tag, fromDate |-> fromDate, toDate |-> toDate ]

\* Inputs of the server-wide specification: a few of each tool
SendEmailInputs ==
  { SendEmailArgs("a@example.com", Undefined, Undefined, Undefined, Undefined),
    SendEmailArgs("a@example.com", << "c@example.com" >>, << "<p>Hello</p>" >>, << "promo" >>,
                  << << Att(ReportCsv, Undefined) >> >>),
    SendEmailArgs("a@example.com", Undefined, Undefined, Undefined,
                  << << Att(ReportCsv, Undefined), Att(GonePdf, Undefined) >> >>),
    SendEmailArgs("not-an-email", Undefined, Undefined, Undefined, Undefined) }

TemplateInputs ==
  { TemplateArgs(<< 12345 >>, Undefined, Undefined, Undefined),
    TemplateArgs(Undefined, Undefined, Undefined, Undefined),
    TemplateArgs(<< 12345 >>, << "welcome" >>, Undefined, << "onboarding" >>) }

StatsInputs ==
  { StatsArgs(<< "marketing" >>, << "2025-05-01" >>, << "2025-05-15" >>),
    StatsArgs(Undefined, << "05/01/2025" >>, Undefined) }

\* Inputs of the tool specification: every combination of the optional arguments
OptionalText(v) == { Undefined, << "" >>, << v >> }

FileNames == { << <<>> >>, << << "x", ".", "p", "d", "f" >> >>, << << "m", "y", " ", "r", "e", "p", "o", "r", "t" >> >> }

WideAttachments ==
  { Att(p, Undefined) : p \in SamplePaths \cup { GonePdf } }
  \cup { Att(p, n) : p \in { ReportCsv, GonePdf }, n \in FileNames }

SendEmailWide ==
  { SendEmailArgs("a@example.com", Undefined, Undefined, Undefined, << l >>) :
      l \in SeqsUpTo(WideAttachments, MaxAtt) }
  \cup
  { SendEmailArgs(to, from, html, tag, atts) :
      to \in { "a@example.com", "not-an-email" },
      from \in { Undefined, << "c@example.com" >>, << "nobody" >> },
      html \in OptionalText("<p>Hello</p>"),
      tag \in OptionalText("promo"),
      atts \in { Undefined, << << Att(ReportCsv, Undefined) >> >> } }

TemplateWide ==
  { TemplateArgs(id, alias, from, tag) :
      id \in { Undefined, << 0 >>, << 12345 >> },
      alias \in OptionalText("welcome"),
      from \in { Undefined, << "c@example.com" >> },
      tag \in OptionalText("onboarding") }

StatsWide ==
  { StatsArgs(tag, from, to) :
      tag \in OptionalText("marketing"),
      from \in { Undefined, << "2025-05-01" >> },
      to \in { Undefined, << "2025-05-15" >>, << "15 May" >> } }

\* The input schemas given to server.tool
SchemaOk(tool, raw) ==
  CASE tool = "sendEmail" ->
         IsEmail(raw.to) /\ (raw.from = Undefined \/ IsEmail(raw.from[1]))
    [] tool = "sendEmailWithTemplate" ->
         IsEmail(raw.to) /\ (raw.from = Undefined \/ IsEmail(raw.from[1]))
    [] tool = "listTemplates" -> TRUE
    [] tool = "getDeliveryStats" ->
         /\ raw.fromDate = Undefined \/ IsDate(raw.fromDate[1])
         /\ raw.toDate = Undefined \/ IsDate(raw.toDate[1])

\* Responses of the provider
MessageID == "b7bc2f4a"

TemplateLists ==
  { <<>>,
    << [ Name |-> "Basic", TemplateId |-> 12345678, Alias |-> << "basic" >>, Subject |-> Undefined ],
       [ Name |-> "Welcome", TemplateId |-> 2345679, Alias |-> Undefined, Subject |-> << "Hi" >> ] >> }

StatsData(sent, tracked, opens, links, clicked) ==
  [ Sent |-> sent, Tracked |-> tracked, UniqueOpens |-> opens,
    TotalTrackedLinksSent |-> links, UniqueLinksClicked |-> clicked ]

StatsSamples ==
  { StatsData(<< 100 >>, << 99 >>, << 45 >>, << 99 >>, << 15 >>) }

\* A count of the statistics response: missing, or 0..MaxCount
Counts == { Undefined } \cup { << n >> : n \in 0..MaxCount }

\* Responses of the tool specification: every pair of counts for the open
\* rate, and every pair for the click rate
StatsWideData ==
  { StatsData(<< 100 >>, t, o, << 99 >>, << 15 >>) : t \in Counts, o \in Counts }
  \cup { StatsData(Undefined, << 99 >>, << 45 >>, l, c) : l \in Counts, c \in Counts }

----------------------------------------------------------------------------
(* The tool handlers.  A handler runs to its next await, or to its end:    *)
(*   [status |-> "pending", pc, payload, reads]     it awaits a call       *)
(*   [status |-> "returned", text]                  it returned a result   *)
(*   [status |-> "threw", message, reads]           it threw               *)

Pending(pc, payload, reads) ==
  [ status |-> "pending", pc |-> pc, payload |-> payload, reads |-> reads ]

Returned(text) == [ status |-> "returned", text |-> text ]

Threw(message, reads) == [ status |-> "threw", message |-> message, reads |-> reads ]

\* A variant of SendEmailData that always sends from the default sender
SendEmailDataDefaultSender(args) ==
  [ From          |-> defaultSender,
    To            |-> args.to,
    Subject       |-> args.subject,
    TextBody      |-> args.textBody,
    MessageStream |-> defaultMessageStream,
    TrackOpens    |-> TRUE,
    TrackLinks    |-> "HtmlAndText",
    HtmlBody      |-> IF TruthyStr(args.htmlBody) THEN args.htmlBody ELSE Undefined,
    Tag           |-> IF TruthyStr(args.tag) THEN args.tag ELSE Undefined,
    Attachments   |-> Undefined ]

\* index.js:129-140
SendEmailData(args) ==
  [ From          |-> IF TruthyStr(args.from) THEN args.from ELSE defaultSender,
    To            |-> args.to,
    Subject       |-> args.subject,
    TextBody      |-> args.textBody,
    MessageStream |-> defaultMessageStream,
    TrackOpens    |-> TRUE,
    TrackLinks    |-> "HtmlAndText",
    HtmlBody      |-> IF TruthyStr(args.htmlBody) THEN args.htmlBody ELSE Undefined,
    Tag           |-> IF TruthyStr(args.tag) THEN args.tag ELSE Undefined,
    Attachments   |-> Undefined ]

\* index.js:128-174: the sendEmail handler up to await postmarkClient.sendEmail
SendEmailHandler(args) ==
  LET data == SendEmailData(args)
      has  == args.attachments # Undefined /\ Len(args.attachments[1]) > 0
      m    == IF has
                THEN AttachmentsMap(args.attachments[1], 1, <<>>)
                ELSE [ threw |-> FALSE, value |-> <<>>, reads |-> 0 ]
  IN  IF m.threw
        THEN Threw("ENOENT: no such file or directory", m.reads)
        ELSE Pending("awaitSendEmail",
                     << IF has THEN [ data EXCEPT !.Attachments = << m.value >> ] ELSE data >>,
                     m.reads)

\* A variant of SendEmailResume that sends again when the provider rejects
SendEmailResumeRetry(args, emailData, ok) ==
  IF ~ok
    THEN Pending("awaitSendEmail", << emailData >>, 0)
    ELSE Returned(
           [ kind       |-> "Email sent successfully!",
             MessageID  |-> MessageID,
             To         |-> args.to,
             Subject    |-> args.subject,
             attachInfo |-> IF emailData.Attachments # Undefined
                              THEN << Join([ k \in 1..Len(emailData.Attachments[1]) |->
                                               emailData.Attachments[1][k].Name ]) >>
                              ELSE Undefined ])

\* index.js:174-186: the sendEmail handler after the await
SendEmailResume(args, emailData, ok) ==
  IF ~ok
    THEN Threw("provider rejected the message", 0)
    ELSE Returned(
           [ kind       |-> "Email sent successfully!",
             MessageID  |-> MessageID,
             To         |-> args.to,
             Subject    |-> args.subject,
             attachInfo |-> IF emailData.Attachments # Undefined
                              THEN << Join([ k \in 1..Len(emailData.Attachments[1]) |->
                                               emailData.Attachments[1][k].Name ]) >>
                              ELSE Undefined ])

\* index.js:201-224: the sendEmailWithTemplate handler up to the await
TemplateHandler(args) ==
  IF ~TruthyNum(args.templateId) /\ ~TruthyStr(args.templateAlias)
    THEN Threw("Either templateId or templateAlias must be provided", 0)
    ELSE Pending("awaitSendEmailWithTemplate",
        << [ From          |-> IF TruthyStr(args.from) THEN args.from ELSE defaultSender,
             To            |-> args.to,
             TemplateModel |-> args.templateModel,
             MessageStream |-> defaultMessageStream,
             TrackOpens    |-> TRUE,
             TrackLinks    |-> "HtmlAndText",
             TemplateId    |-> IF TruthyNum(args.templateId) THEN args.templateId ELSE Undefined,
             TemplateAlias |-> IF TruthyNum(args.templateId) THEN Undefined ELSE args.templateAlias,
             Tag           |-> IF TruthyStr(args.tag) THEN args.tag ELSE Undefined ] >>,
           0)

\* index.js:224-232: the sendEmailWithTemplate handler after the await
TemplateResume(args, ok) ==
  IF ~ok
    THEN Threw("provider rejected the message", 0)
    ELSE Returned(
           [ kind      |-> "Template email sent successfully!",
             MessageID |-> MessageID,
             To        |-> args.to,
             Template  |-> IF TruthyNum(args.templateId)
                             THEN args.templateId ELSE args.templateAlias ])

\* index.js:240-242: the listTemplates handler up to the await
ListTemplatesHandler == Pending("awaitGetTemplates", Undefined, 0)

\* index.js:242-254: the listTemplates handler after the await
ListTemplatesResume(ok, templates) ==
  IF ~ok
    THEN Threw("provider rejected the request", 0)
    ELSE Returned(
           [ kind   |-> "Found templates",
             count  |-> Len(templates),
             blocks |-> [ k \in 1..Len(templates) |->
                          [ Name    |-> templates[k].Name,
                            ID      |-> templates[k].TemplateId,
                            Alias   |-> IF TruthyStr(templates[k].Alias)
                                          THEN templates[k].Alias[1] ELSE "none",
                            Subject |-> IF TruthyStr(templates[k].Subject)
                                          THEN templates[k].Subject[1] ELSE "none" ] ] ])

\* index.js:267-272: the query string of the statistics request
StatsQuery(args) ==
  (IF TruthyStr(args.fromDate) THEN << << "fromdate", args.fromDate[1] >> >> ELSE <<>>)
  \o (IF TruthyStr(args.toDate) THEN << << "todate", args.toDate[1] >> >> ELSE <<>>)
  \o (IF TruthyStr(args.tag) THEN << << "tag", args.tag[1] >> >> ELSE <<>>)

\* index.js:266-281: the getDeliveryStats handler up to await fetch
StatsHandler(args) ==
  Pending("awaitFetch",
       << [ url     |-> [ base |-> "https://api.postmarkapp.com/stats/outbound",
                          query |-> StatsQuery(args) ],
            headers |-> [ Accept |-> "application/json", Token |-> serverToken ] ] >>,
          0)

\* index.js:283-287: after await fetch; response is "rejected", "non2xx" or "ok"
StatsAfterFetch(request, response) ==
  CASE response = "rejected" -> Threw("request to api.postmarkapp.com failed", 0)
    [] response = "non2xx"   -> Threw("API request failed: 500 Internal Server Error", 0)
    [] response = "ok"       -> Pending("awaitJson", << request >>, 0)

\* data.X || 0
OrZero(o) == IF TruthyNum(o) THEN o[1] ELSE 0

\* index.js:287-308: after await response.json(); data is <<>> when it rejects
StatsAfterJson(args, data) ==
  IF data = Undefined
    THEN Threw("invalid json response body", 0)
    ELSE LET sent               == OrZero(data[1].Sent)
             tracked            == OrZero(data[1].Tracked)
             uniqueOpens        == OrZero(data[1].UniqueOpens)
             totalTrackedLinks  == OrZero(data[1].TotalTrackedLinksSent)
             uniqueLinksClicked == OrZero(data[1].UniqueLinksClicked)
         IN  Returned(
               [ kind               |-> "Email Statistics Summary",
                 sent               |-> sent,
                 openRate           |-> RateOf(uniqueOpens, tracked),
                 uniqueOpens        |-> uniqueOpens,
                 tracked            |-> tracked,
                 clickRate          |-> RateOf(uniqueLinksClicked, totalTrackedLinks),
                 uniqueLinksClicked |-> uniqueLinksClicked,
                 totalTrackedLinks  |-> totalTrackedLinks,
                 period             |-> IF TruthyStr(args.fromDate) \/ TruthyStr(args.toDate)
                                          THEN << IF TruthyStr(args.fromDate)
                                                    THEN args.fromDate[1] ELSE "start",
                                                  IF TruthyStr(args.toDate)
                                                    THEN args.toDate[1] ELSE "now" >>
                                          ELSE Undefined,
                 tag                |-> IF TruthyStr(args.tag) THEN args.tag ELSE Undefined ])

\* A variant of Awaited in which the statistics handler starts its request
\* without awaiting it
AwaitedExceptStats(tool) == tool # "getDeliveryStats"

\* Every provider promise a handler creates is awaited by it (index.js:174,
\* 224, 242, 276, 287), so a rejection rejects the handler's own promise.
Awaited(tool) == TRUE

----------------------------------------------------------------------------
(* Start-up: initializeServices and main *)

\* A variant of ConfigPresent that forgets DEFAULT_MESSAGE_STREAM
ConfigPresentNoStream ==
  /\ TruthyStr(serverToken)
  /\ TruthyStr(defaultSender)

\* index.js:25-38: the first missing value exits the process
ConfigPresent ==
  /\ TruthyStr(serverToken)
  /\ TruthyStr(defaultSender)
  /\ TruthyStr(defaultMessageStream)

ToolNames == { "sendEmail", "sendEmailWithTemplate", "listTemplates", "getDeliveryStats" }

IdleInv ==
  [ tool |-> "none", pc |-> "idle", args |-> Undefined, payload |-> Undefined,
    response |-> Undefined, result |-> Undefined, calls |-> 0, reads |-> 0, results |-> 0 ]

Exit(code, cause) ==
  /\ exitCode' = << code >>
  /\ exitCause' = cause

Alive == exitCode = Undefined

\* main() up to the first await: the three checks, then client.getServer()
MainStart ==
  /\ Alive
  /\ mainPc = "start"
  /\ IF ConfigPresent
       THEN /\ mainPc' = "awaitGetServer"
            /\ liveness' = "pending"
            /\ UNCHANGED << exitCode, exitCause >>
       ELSE /\ Exit(1, "config")
            /\ UNCHANGED << mainPc, liveness >>
  /\ UNCHANGED << envVars, registeredTools, transportBound, signalHandlers, shutVars, inv >>

\* client.getServer() settles; on success registerTools and server.connect
GetServerSettles(ok) ==
  /\ Alive
  /\ mainPc = "awaitGetServer"
  /\ liveness' = IF ok THEN "ok" ELSE "failed"
  /\ IF ok
       THEN /\ registeredTools' = ToolNames
            /\ mainPc' = "awaitConnect"
            /\ UNCHANGED << exitCode, exitCause >>
       ELSE /\ Exit(1, "init")
            /\ UNCHANGED << mainPc, registeredTools >>
  /\ UNCHANGED << envVars, transportBound, signalHandlers, shutVars, inv >>

\* server.connect(transport) settles; on success the signal handlers are installed
ConnectSettles(ok) ==
  /\ Alive
  /\ mainPc = "awaitConnect"
  /\ IF ok
       THEN /\ transportBound' = TRUE
            /\ signalHandlers' = TRUE
            /\ mainPc' = "running"
            /\ UNCHANGED << exitCode, exitCause >>
       ELSE /\ Exit(1, "connect")
            /\ UNCHANGED << mainPc, transportBound, signalHandlers >>
  /\ UNCHANGED << envVars, registeredTools, liveness, shutVars, inv >>

----------------------------------------------------------------------------
(* The dispatcher of the MCP SDK (McpServer.tool): it validates the        *)
(* arguments against the tool's schema, runs the handler and turns what    *)
(* the handler returns or throws into the invocation's result.             *)

\* The slot of an invocation that has just been delivered
Delivered(tool, raw) == [ IdleInv EXCEPT !.tool = tool, !.pc = "start", !.args = raw ]

\* The slot after a run of its handler
Settle(slot, seg) ==
  CASE seg.status = "pending" ->
         [ slot EXCEPT !.pc = seg.pc,
                       !.payload = seg.payload,
                       !.calls = IF seg.pc = "awaitJson" THEN @ ELSE @ + 1,
                       !.reads = @ + seg.reads ]
    [] seg.status = "returned" ->
         [ slot EXCEPT !.pc = "done",
                       !.result = << [ isError |-> FALSE, text |-> seg.text ] >>,
                       !.results = @ + 1 ]
    [] seg.status = "threw" ->
         [ slot EXCEPT !.pc = "done",
                       !.result = << [ isError |-> TRUE, text |-> seg.message ] >>,
                       !.reads = @ + seg.reads,
                       !.results = @ + 1 ]

\* The first run of a tool's handler on validated arguments
HandlerStart(tool, args) ==
  CASE tool = "sendEmail"             -> SendEmailHandler(args)
    [] tool = "sendEmailWithTemplate" -> TemplateHandler(args)
    [] tool = "listTemplates"         -> ListTemplatesHandler
    [] tool = "getDeliveryStats"      -> StatsHandler(args)

\* Invocations are delivered while the transport is bound and not closed
Serving == Alive /\ mainPc = "running" /\ transportBound /\ closeCalls = 0

\* A tool invocation arrives: validation, then the handler up to its first await
Invoke(i, tool, raw) ==
  /\ Serving
  /\ tool \in registeredTools
  /\ inv[i].pc = "idle"
  /\ inv' = [ inv EXCEPT ![i] =
                Settle(Delivered(tool, raw),
                       IF SchemaOk(tool, raw)
                         THEN HandlerStart(tool, raw)
                         ELSE Threw("Invalid arguments for tool", 0)) ]
  /\ UNCHANGED << envVars, lifeVars, shutVars >>

\* What a provider promise settles with: "rejected", or fulfilled with a body
\* ("non2xx" is a fulfilled fetch whose response.ok is false)
Answer(status, body) == [ status |-> status, body |-> body ]

Rejection == Answer("rejected", Undefined)

\* A provider promise of slot i settles with response and its handler resumes
\* with seg.  A rejection of a promise the handler does not await reaches the
\* unhandledRejection handler (index.js:106-109) instead.
Resume(i, pc, response, seg) ==
  /\ Alive
  /\ inv[i].pc = pc
  /\ IF response.status = "rejected" /\ ~Awaited(inv[i].tool)
       THEN /\ Exit(1, "unhandled")
            /\ UNCHANGED inv
       ELSE /\ inv' = [ inv EXCEPT ![i] = Settle([ inv[i] EXCEPT !.response = << response >> ], seg) ]
            /\ UNCHANGED << exitCode, exitCause >>
  /\ UNCHANGED << envVars, mainPc, registeredTools, transportBound, signalHandlers,
                  liveness, shutVars >>

\* Each action below takes the set its arguments or provider response are
\* drawn from.

SendEmailCall(i, inputs) ==
  /\ inv[i].pc = "idle"
  /\ \E raw \in inputs : Invoke(i, "sendEmail", raw)

SendEmailSettles(i) ==
  /\ inv[i].pc = "awaitSendEmail"
  /\ \E ok \in BOOLEAN :
       Resume(i, "awaitSendEmail", IF ok THEN Answer("ok", << MessageID >>) ELSE Rejection,
              SendEmailResume(inv[i].args, inv[i].payload[1], ok))

TemplateCall(i, inputs) ==
  /\ inv[i].pc = "idle"
  /\ \E raw \in inputs : Invoke(i, "sendEmailWithTemplate", raw)

TemplateSettles(i) ==
  /\ inv[i].pc = "awaitSendEmailWithTemplate"
  /\ \E ok \in BOOLEAN :
       Resume(i, "awaitSendEmailWithTemplate",
              IF ok THEN Answer("ok", << MessageID >>) ELSE Rejection,
              TemplateResume(inv[i].args, ok))

ListTemplatesCall(i) ==
  /\ inv[i].pc = "idle"
  /\ Invoke(i, "listTemplates", [ none |-> TRUE ])

ListTemplatesSettles(i) ==
  /\ inv[i].pc = "awaitGetTemplates"
  /\ \E ok \in BOOLEAN, templates \in TemplateLists :
       Resume(i, "awaitGetTemplates",
              IF ok THEN Answer("ok", << templates >>) ELSE Rejection,
              ListTemplatesResume(ok, templates))

StatsCall(i, inputs) ==
  /\ inv[i].pc = "idle"
  /\ \E raw \in inputs : Invoke(i, "getDeliveryStats", raw)

FetchSettles(i) ==
  /\ inv[i].pc = "awaitFetch"
  /\ \E response \in { "rejected", "non2xx", "ok" } :
       Resume(i, "awaitFetch", Answer(response, Undefined),
              StatsAfterFetch(inv[i].payload[1], response))

JsonSettles(i, responses) ==
  /\ inv[i].pc = "awaitJson"
  /\ \E data \in { Undefined } \cup { << x >> : x \in responses } :
       Resume(i, "awaitJson",
              IF data = Undefined THEN Rejection ELSE Answer("ok", data),
              StatsAfterJson(inv[i].args, data))

----------------------------------------------------------------------------
(* Shutdown: handleShutdown, installed for SIGTERM and SIGINT *)

\* index.js:78-79, 87-91: a signal runs handleShutdown up to await server.close()
Signal ==
  /\ Alive
  /\ signalHandlers
  /\ signalsDelivered < MaxSignals
  /\ signalsDelivered' = signalsDelivered + 1
  /\ closeCalls' = closeCalls + 1
  /\ closePending' = closePending \cup { closeCalls + 1 }
  /\ UNCHANGED << envVars, lifeVars, inv >>

\* index.js:91-97: the k-th server.close() settles and the process exits
CloseSettles(k, ok) ==
  /\ Alive
  /\ k \in closePending
  /\ closePending' = closePending \ { k }
  /\ Exit(IF ok THEN 0 ELSE 1, "shutdown")
  /\ UNCHANGED << envVars, mainPc, registeredTools, transportBound, signalHandlers,
                  liveness, signalsDelivered, closeCalls, inv >>

Init ==
  /\ serverToken \in EnvValues \cup { << TokenValue >> }
  /\ defaultSender \in EnvValues \cup { << SenderValue >> }
  /\ defaultMessageStream \in EnvValues \cup { << StreamValue >> }
  /\ mainPc = "start"
  /\ exitCode = Undefined
  /\ exitCause = ""
  /\ registeredTools = {}
  /\ transportBound = FALSE
  /\ signalHandlers = FALSE
  /\ liveness = "none"
  /\ signalsDelivered = 0
  /\ closeCalls = 0
  /\ closePending = {}
  /\ inv = [ i \in Slots |-> IdleInv ]

Next ==
  \/ MainStart
  \/ \E ok \in BOOLEAN : GetServerSettles(ok)
  \/ \E ok \in BOOLEAN : ConnectSettles(ok)
  \/ \E i \in Slots : SendEmailCall(i, SendEmailInputs)
  \/ \E i \in Slots : SendEmailSettles(i)
  \/ \E i \in Slots : TemplateCall(i, TemplateInputs)
  \/ \E i \in Slots : TemplateSettles(i)
  \/ \E i \in Slots : ListTemplatesCall(i)
  \/ \E i \in Slots : ListTemplatesSettles(i)
  \/ \E i \in Slots : StatsCall(i, StatsInputs)
  \/ \E i \in Slots : FetchSettles(i)
  \/ \E i \in Slots : JsonSettles(i, StatsSamples)
  \/ Signal
  \/ \E k \in 1..MaxSignals, ok \in BOOLEAN : CloseSettles(k, ok)

Spec == Init /\ [][Next]_vars

----------------------------------------------------------------------------
(* The tool specification: the server is running and one invocation is     *)
(* delivered, with arguments and provider responses from the wide sets.    *)

InitTools ==
  /\ serverToken = << TokenValue >>
  /\ defaultSender = << SenderValue >>
  /\ defaultMessageStream = << StreamValue >>
  /\ mainPc = "running"
  /\ exitCode = Undefined
  /\ exitCause = ""
  /\ registeredTools = ToolNames
  /\ transportBound = TRUE
  /\ signalHandlers = TRUE
  /\ liveness = "ok"
  /\ signalsDelivered = 0
  /\ closeCalls = 0
  /\ closePending = {}
  /\ inv = [ i \in Slots |-> IdleInv ]

\* The statistics grid is answered to the invocation without filters
StatsResponses ==
  IF inv[1].args = StatsArgs(Undefined, Undefined, Undefined)
    THEN StatsWideData ELSE StatsSamples

NextTools ==
  \/ SendEmailCall(1, SendEmailWide)
  \/ SendEmailSettles(1)
  \/ TemplateCall(1, TemplateWide)
  \/ TemplateSettles(1)
  \/ ListTemplatesCall(1)
  \/ ListTemplatesSettles(1)
  \/ StatsCall(1, StatsWide)
  \/ FetchSettles(1)
  \/ JsonSettles(1, StatsResponses)

SpecTools == InitTools /\ [][NextTools]_vars

----------------------------------------------------------------------------
(* Properties *)

Done(i) == inv[i].pc = "done"

Failed(i) == Done(i) /\ inv[i].result[1].isError

Succeeded(i) == Done(i) /\ ~inv[i].result[1].isError

\* An argument is supplied when the caller gave it a value
Supplied(o) == o # Undefined

\* C1 (as stated): a schema-valid sendEmailWithTemplate invocation that
\* supplies neither templateId nor templateAlias, or supplies both, fails with
\* an error, and postmarkClient.sendEmailWithTemplate is never called for it.
C1_NeitherOrBothFails ==
  \A i \in Slots :
    ( /\ inv[i].tool = "sendEmailWithTemplate"
      /\ SchemaOk("sendEmailWithTemplate", inv[i].args)
      /\ Supplied(inv[i].args.templateId) = Supplied(inv[i].args.templateAlias) )
    => /\ Failed(i)
       /\ inv[i].calls = 0

\* The three configuration values as the start-up checks see them
C2_AllPresent ==
  /\ serverToken \notin { Undefined, << "" >> }
  /\ defaultSender \notin { Undefined, << "" >> }
  /\ defaultMessageStream \notin { Undefined, << "" >> }

C2_ConnectCalled == mainPc \in { "awaitConnect", "running" }

\* C2: registerTools and server.connect happen only after the three values
\* were found present and client.getServer() succeeded; when a value is
\* missing or the liveness call fails the process exits with code 1 with no
\* tool registered and no transport bound, and a missing value means that no
\* provider call is made.
C2_StartupGated ==
  /\ (registeredTools # {} \/ C2_ConnectCalled \/ transportBound)
       => C2_AllPresent /\ liveness = "ok"
  /\ transportBound => registeredTools = ToolNames
  /\ ~C2_AllPresent
       => /\ liveness = "none"
          /\ registeredTools = {}
          /\ ~transportBound
          /\ \A i \in Slots : inv[i].calls = 0
          /\ mainPc = "start"
          /\ exitCode \in { Undefined, << 1 >> }
          /\ exitCode = Undefined => exitCause = "" /\ ENABLED MainStart
  /\ liveness = "failed"
       => /\ exitCode = << 1 >>
          /\ registeredTools = {}
          /\ ~transportBound

C2_Witness ==
  /\ mainPc = "running"
  /\ transportBound
  /\ registeredTools = ToolNames
  /\ liveness = "ok"

\* The ways an invocation can fail after start-up
C3_SchemaFailure(i) == inv[i].tool # "none" /\ ~SchemaOk(inv[i].tool, inv[i].args)

C3_ProviderFailure(i) ==
  /\ inv[i].response # Undefined
  /\ inv[i].response[1].status \in { "rejected", "non2xx" }

C3_HandlerThrew(i) ==
  \/ /\ inv[i].tool = "sendEmailWithTemplate"
     /\ SchemaOk(inv[i].tool, inv[i].args)
     /\ inv[i].args.templateId \in { Undefined, << 0 >> }
     /\ inv[i].args.templateAlias \in { Undefined, << "" >> }
  \/ /\ inv[i].tool = "sendEmail"
     /\ SchemaOk(inv[i].tool, inv[i].args)
     /\ inv[i].args.attachments # Undefined
     /\ \E k \in 1..Len(inv[i].args.attachments[1]) :
          inv[i].args.attachments[1][k].filePath \notin ExistingFiles

\* C3: a failure inside a tool invocation becomes an error-shaped result of
\* that invocation only: the process never exits through the
\* unhandledRejection or uncaughtException handlers, process.exit is reached
\* by start-up and shutdown only, and the server stays able to serve.
C3_FailuresAreResults ==
  /\ exitCause \in { "", "config", "init", "connect", "shutdown" }
  /\ \A i \in Slots :
       /\ (C3_SchemaFailure(i) \/ C3_HandlerThrew(i) \/ C3_ProviderFailure(i)) => Failed(i)
       /\ Failed(i) =>
            /\ exitCode # Undefined => exitCause = "shutdown"
            /\ closeCalls = 0 => Serving

C3_Witness ==
  \E i, j \in Slots :
    /\ Failed(i)
    /\ inv[i].tool = "getDeliveryStats"
    /\ inv[i].response # Undefined
    /\ inv[i].response[1].status = "non2xx"
    /\ Succeeded(j)
    /\ Alive

\* The attachments a sendEmail invocation was given: <<>> when absent or empty
GivenAttachments(i) ==
  IF inv[i].args.attachments = Undefined THEN <<>> ELSE inv[i].args.attachments[1]

ValidSendEmail(i) == inv[i].tool = "sendEmail" /\ SchemaOk("sendEmail", inv[i].args)

\* C4: a sendEmail invocation with a non-empty attachments list, one of whose
\* files cannot be read (at any position), fails, and postmarkClient.sendEmail
\* is never called for it.
C4_UnreadableAborts ==
  \A i \in Slots :
    ( /\ ValidSendEmail(i)
      /\ \E k \in 1..Len(GivenAttachments(i)) :
           GivenAttachments(i)[k].filePath \notin ExistingFiles )
    => /\ Failed(i)
       /\ inv[i].calls = 0
       /\ inv[i].payload = Undefined

C4_Witness ==
  \E i \in Slots :
    /\ ValidSendEmail(i)
    /\ Len(GivenAttachments(i)) = 2
    /\ GivenAttachments(i)[1].filePath \in ExistingFiles
    /\ GivenAttachments(i)[2].filePath \notin ExistingFiles
    /\ Failed(i)

\* The final segment of a path: what follows its last "/", trailing "/" aside
RECURSIVE TrimSlashes(_)
TrimSlashes(p) ==
  IF p # <<>> /\ p[Len(p)] = "/" THEN TrimSlashes(SubSeq(p, 1, Len(p) - 1)) ELSE p

LastSegment(p) ==
  LET t       == TrimSlashes(p)
      slashes == { k \in 1..Len(t) : t[k] = "/" }
      start   == IF slashes = {} THEN 1
                 ELSE (CHOOSE k \in slashes : \A m \in slashes : m <= k) + 1
  IN  SubSeq(t, start, Len(t))

\* The name C5 states: fileName whenever it is given, the empty string included
C5_NameAsStated(att) ==
  IF att.fileName # Undefined THEN att.fileName[1] ELSE LastSegment(att.filePath)

\* The name the handler uses: fileName when given and not empty
C5_Name(att) ==
  IF att.fileName # Undefined /\ att.fileName[1] # <<>>
    THEN att.fileName[1] ELSE LastSegment(att.filePath)

C5_NamesAre(Name(_)) ==
  \A i \in Slots :
    (ValidSendEmail(i) /\ inv[i].calls = 1) =>
      LET given == GivenAttachments(i)
          names == [ k \in 1..Len(given) |-> Name(given[k]) ]
          sent  == inv[i].payload[1].Attachments
      IN  IF given = <<>>
            THEN /\ sent = Undefined
                 /\ Succeeded(i) => inv[i].result[1].text.attachInfo = Undefined
            ELSE /\ sent # Undefined
                 /\ Len(sent[1]) = Len(given)
                 /\ \A k \in 1..Len(given) : sent[1][k].Name = names[k]
                 /\ Succeeded(i) => inv[i].result[1].text.attachInfo = << Join(names) >>

\* C5 (as stated): the Attachments passed to the provider and the names on the
\* result's "Attachments:" line follow the input list in length and order;
\* the i-th name is fileName when fileName is given (the empty string
\* included) and otherwise the final path segment of filePath; without
\* attachments the result has no "Attachments:" line.
C5_NamesAsStated == C5_NamesAre(C5_NameAsStated)

\* C5 (amended): as above, with the i-th name being fileName when fileName is
\* given and not empty, and the final path segment of filePath when fileName
\* is absent or the empty string.
C5_NamesPreserved == C5_NamesAre(C5_Name)

C5_Witness ==
  \E i \in Slots :
    /\ ValidSendEmail(i)
    /\ Succeeded(i)
    /\ Len(GivenAttachments(i)) = 2
    /\ GivenAttachments(i)[1].fileName = << <<>> >>
    /\ GivenAttachments(i)[2].fileName = << << "x", ".", "p", "d", "f" >> >>
    /\ inv[i].result[1].text.attachInfo =
         << << "r", ".", "c", "s", "v", ",", " ", "x", ".", "p", "d", "f" >> >>

\* The extensions C6 lists
C6_Listed ==
  { << "c", "s", "v" >>, << "t", "x", "t" >>, << "j", "s", "o", "n" >>, << "p", "d", "f" >>,
    << "p", "n", "g" >>, << "j", "p", "g" >>, << "j", "p", "e", "g" >>, << "g", "i", "f" >>,
    << "h", "t", "m", "l" >>, << "x", "m", "l" >>, << "z", "i", "p" >>, << "m", "d" >> }

\* The lower-cased extension of a path, without its dot: what follows the last
\* "." of the final segment, when that "." is not the segment's first character
C6_Extension(p) ==
  LET seg  == LastSegment(p)
      dots == { k \in 2..Len(seg) : seg[k] = "." }
  IN  IF dots = {} THEN Undefined
      ELSE << toLowerCase(SubSeq(seg, (CHOOSE k \in dots : \A m \in dots : m <= k) + 1,
                                 Len(seg))) >>

C6_Expected(p) ==
  LET ext == C6_Extension(p)
  IN  IF ext # Undefined /\ ext[1] \in C6_Listed
        THEN (CHOOSE e \in MIME_TYPES : e[1] = << "." >> \o ext[1])[2]
        ELSE "application/octet-stream"

\* C6: the ContentType of every attachment whose file was read is never
\* empty; it is the table entry of the lower-cased extension of filePath when
\* that extension is a listed one, whatever its letter case and whatever the
\* fileName override, and application/octet-stream otherwise.
C6_ContentTypeTotal ==
  /\ { e[1] : e \in MIME_TYPES } = { << "." >> \o x : x \in C6_Listed }
  /\ \A i \in Slots :
       (ValidSendEmail(i) /\ inv[i].calls = 1 /\ GivenAttachments(i) # <<>>) =>
         \A k \in 1..Len(GivenAttachments(i)) :
           LET type == inv[i].payload[1].Attachments[1][k].ContentType
           IN  /\ type # ""
               /\ type = C6_Expected(GivenAttachments(i)[k].filePath)

C6_Witness ==
  \E i \in Slots :
    /\ ValidSendEmail(i)
    /\ inv[i].calls = 1
    /\ Len(GivenAttachments(i)) = 2
    /\ GivenAttachments(i)[1] = Att(TmpDir \o << "R", ".", "C", "S", "V" >>, Undefined)
    /\ GivenAttachments(i)[2] = Att(ReportCsv, << << "x", ".", "p", "d", "f" >> >>)
    /\ inv[i].payload[1].Attachments[1][1].ContentType = "text/csv"
    /\ inv[i].payload[1].Attachments[1][2].ContentType = "text/csv"

\* A count of a statistics response, a missing count being 0
C7_Count(o) == IF o = Undefined THEN 0 ELSE o[1]

\* The tenths nearest to n / d * 100: the values of n / d * 100 rounded to one
\* decimal place (two of them when n / d * 100 lies halfway between two tenths)
C7_Rounded(n, d) ==
  LET q == (1000 * n) \div d
  IN  { t \in { q, q + 1 } :
          2 * (IF 1000 * n >= t * d THEN 1000 * n - t * d ELSE t * d - 1000 * n) <= d }

C7_Rate(n, d) ==
  IF d = 0 THEN { "0.0" } ELSE { TenthsToString(t) : t \in C7_Rounded(n, d) }

C8_FixedPolicy ==
  /\ serverToken = << TokenValue >>
  /\ defaultSender = << SenderValue >>
  /\ defaultMessageStream = << StreamValue >>
  /\ \A i \in Slots :
       (inv[i].tool \in { "sendEmail", "sendEmailWithTemplate" } /\ inv[i].calls > 0) =>
         LET payload == inv[i].payload[1]
         IN  /\ payload.TrackOpens = TRUE
             /\ payload.TrackLinks = "HtmlAndText"
             /\ payload.MessageStream = << StreamValue >>
             /\ payload.From = IF inv[i].args.from # Undefined
                                 THEN inv[i].args.from ELSE << SenderValue >>

C8_Witness ==
  \E i \in Slots :
    /\ inv[i].tool = "sendEmail"
    /\ inv[i].calls = 1
    /\ inv[i].args.from = << "c@example.com" >>
    /\ inv[i].args.tag = << "promo" >>
    /\ inv[i].payload[1].From = << "c@example.com" >>
    /\ inv[i].payload[1].MessageStream = << StreamValue >>

\* The file reads a sendEmail invocation may make: up to the first file that
\* cannot be read
C9_ReadLimit(i) ==
  IF ~ValidSendEmail(i) THEN 0
  ELSE LET given == GivenAttachments(i)
           bad   == { k \in 1..Len(given) : given[k].filePath \notin ExistingFiles }
       IN  IF bad = {} THEN Len(given) ELSE CHOOSE k \in bad : \A m \in bad : k <= m

\* C9: an invocation calls the provider at most once, a failed provider call
\* is not repeated, and a failed invocation makes no further file read or
\* provider call and produces exactly one result.
C9_SingleAttempt ==
  \A i \in Slots :
    /\ inv[i].calls <= 1
    /\ inv[i].results <= 1
    /\ inv[i].results = 1 <=> Done(i)
    /\ inv[i].reads <= C9_ReadLimit(i)
    /\ (inv[i].response # Undefined /\ inv[i].response[1].status # "ok")
         => Failed(i) /\ inv[i].calls = 1
    /\ (Failed(i) /\ inv[i].response = Undefined) => inv[i].calls = 0

C9_Witness ==
  \E i \in Slots :
    /\ inv[i].tool = "sendEmail"
    /\ Failed(i)
    /\ inv[i].response # Undefined
    /\ inv[i].response[1].status = "rejected"
    /\ inv[i].calls = 1
    /\ inv[i].reads = 2

\* C10 (as stated): whatever SIGTERM and SIGINT signals arrive once the server
\* runs, server.close() is invoked at most once, and that one close decides
\* the exit code.
C10_SingleClose ==
  /\ closeCalls <= 1
  /\ exitCause = "shutdown" => closePending = {}

\* The file reads a slot's sendEmail invocation makes in all
C11_ReadsOf(slot) ==
  IF slot.tool # "sendEmail" \/ ~SchemaOk("sendEmail", slot.args)
       \/ slot.args.attachments = Undefined
    THEN 0
    ELSE LET given == slot.args.attachments[1]
             bad   == { k \in 1..Len(given) : given[k].filePath \notin ExistingFiles }
         IN  IF bad = {} THEN Len(given) ELSE CHOOSE k \in bad : \A m \in bad : k <= m

\* A slot whose invocation has started its attachment reads and has not
\* finished them
C11_MidRead(slot) ==
  /\ slot.pc \notin { "idle", "done" }
  /\ slot.reads < C11_ReadsOf(slot)

\* C11 (as stated): the attachment file read is a suspension point of the
\* invocation that performs it: the run of the handler that starts a
\* sendEmail invocation with attachments to read stops at the read, its
\* reads not all finished, so that another invocation can take a step before
\* they are; and no step finishes the reads and calls the provider at once.
C11_ReadsSuspend ==
  [][ \A i \in Slots :
        ( /\ inv[i].pc = "idle"
          /\ inv'[i].pc # "idle"
          /\ C11_ReadsOf(inv'[i]) > 0 )
        => /\ C11_MidRead(inv'[i])
           /\ inv'[i].calls = 0 ]_vars

\* What the handler does instead: in no reachable state is an invocation
\* between two of its reads or between its reads and its provider call, so no
\* other invocation steps before the reads have finished.
C11_ReadsAtomic ==
  \A i \in Slots :
    /\ ~C11_MidRead(inv[i])
    /\ (inv[i].pc # "idle" /\ ~Failed(i) /\ C11_ReadsOf(inv[i]) > 0)
         => inv[i].reads = C11_ReadsOf(inv[i]) /\ inv[i].calls = 1

\* Two invocations in flight, the first having read its attachment file in
\* the run that also called the provider
C11_Witness ==
  /\ inv[1].tool = "sendEmail"
  /\ inv[1].pc = "awaitSendEmail"
  /\ inv[1].reads = 1
  /\ inv[1].calls = 1
  /\ inv[2].pc \notin { "idle", "done" }

====
